---------------------------- MODULE Spec2Model ----------------------------
(***************************************************************************)
(* Platform discovery helpers (homeassistant/helpers/discovery.py) and the *)
(* Yr.no poll cycle (homeassistant/components/sensor/yr.py).               *)
(*                                                                         *)
(* Three specifications share this module:                                 *)
(*   SpecGate / FairSpecGate  async_load_platform against the setup lock   *)
(*   SpecBus                  listen / discover / platform listeners       *)
(*   SpecYr                   YrData.async_update and its timers           *)
(* Each specification drives its own variables and leaves the others at    *)
(* their initial values.                                                   *)
(***************************************************************************)
EXTENDS Integers, Sequences, FiniteSets, TLC

VARIABLES
    \* ---- setup lock and async_load_platform invocations ----
    lockPresent,  \* 'setup_lock' in hass.data
    locked,       \* setup_lock.locked()
    waiters,      \* FIFO of processes suspended in setup_lock.acquire()
    woken,        \* waiters whose wake-up is scheduled but has not run yet
    setupPc,      \* the component setup sequence that owns the lock
    pc,           \* position of each async_load_platform invocation
    did_lock,     \* local did_lock of each invocation
    setup_lock,   \* local setup_lock of each invocation: a lock object or None
    largs,        \* (component, platform, discovered) of each invocation
    trig,         \* the invocation was triggered from inside a setup sequence
    res,          \* outcome of the awaited async_setup_component
    acquired,     \* completed setup_lock.acquire() calls per invocation
    released,     \* setup_lock.release() calls per invocation
    fired,        \* events passed to hass.bus.async_fire per invocation
    awaited,      \* the invocation the setup sequence yields from, 0 if none
    \* ---- discovery bus ----
    listeners,    \* listeners of EVENT_PLATFORM_DISCOVERED, registration order
    componentsUp, \* components setup_component has set up
    lastEvent,    \* data of the latest event fired on the bus
    lastKind,     \* its publisher: "discover", "load", "foreign" or "none"
    lastDisc,     \* the `discovered` argument its publisher was called with
    lastComp,     \* the `component` argument its publisher was called with
    afterReturn,  \* it was fired after listen_platform returned to its thread
    nAtPub,       \* number of listeners registered when it was fired
    calls,        \* callback(service, discovered) calls it caused, in order
    jobs,         \* hass.async_run_job(callback, platform, discovered) calls
    lpThread,     \* the thread that called listen_platform
    lpJob,        \* its async_listen_platform callback on the event loop
    lpComp,       \* the component it listens for
    lpCb,         \* the callback it registered
    \* ---- YrData poll cycle ----
    now,          \* dt_util.utcnow()
    activated,    \* async_setup_platform has started the first async_update
    devices,      \* self.devices: the sensor type of each YrSensor
    devState,     \* dev._state of each device
    selfData,     \* self.data: the payload parsed last
    timers,       \* armed async_track_point_in_utc_time timers (due times)
    inflight,     \* async_update invocations suspended at each await
    ev            \* what the latest step of an async_update invocation did

gateVars == <<lockPresent, locked, waiters, woken, setupPc, pc, did_lock,
              setup_lock,
              largs, trig, res, acquired, released, fired, awaited>>

pubVars == <<lastEvent, lastKind, lastDisc, lastComp, afterReturn, nAtPub,
            calls, jobs>>

bridgeVars == <<lpThread, lpJob, lpComp, lpCb>>

busVars == <<listeners, componentsUp, pubVars, bridgeVars>>

yrVars == <<now, activated, devices, devState, selfData, timers, inflight,
           ev>>

vars == <<gateVars, busVars, yrVars>>

\* Python's None, and the absent value of dict.get
None == "<None>"

\* Number of concurrent async_load_platform invocations
NumLoads == 2

Loads == 1..NumLoads

\* process id of the component setup sequence in the lock's waiter queue
SetupProc == 0

Components == {"light", "switch"}

\* helpers/discovery.py:10  EVENT_LOAD_PLATFORM = 'load_platform.{}'
LoadPlatformService(component) == "load_platform." \o component

\* arguments async_load_platform is called with
LoadArgs == {<<"light", "hue", None>>, <<"switch", "", "info">>}

NoArgs == <<None, None, None>>

\* ------------------------------------------------------------------------
\* asyncio.Lock as used through setup_lock.locked / acquire / release

\* the waiter that release() wakes: the first one not woken yet
FirstSleeping(w, wk) ==
    LET idx == {k \in 1..Len(w) : w[k] \notin wk}
    IN  IF idx = {} THEN {}
        ELSE {w[CHOOSE k \in idx : \A m \in idx : k <= m]}

RemoveWaiter(w, p) == SelectSeq(w, LAMBDA q : q # p)

\* setup_lock.release(): unlock and wake the first waiter
LockRelease ==
    /\ locked' = FALSE
    /\ woken' = woken \cup FirstSleeping(waiters, woken)
    /\ UNCHANGED waiters

\* a woken waiter resumes inside acquire(): it takes the lock
LockResume(p) ==
    /\ p \in woken
    /\ locked' = TRUE
    /\ woken' = woken \ {p}
    /\ waiters' = RemoveWaiter(waiters, p)

\* ------------------------------------------------------------------------
\* async_load_platform

\* forgets to wait for the lock after setting did_lock
EntryPcNoWait(mustLock) == "setup"

\* lines 117-123: an invocation that must lock suspends in acquire(),
\* any other goes straight to the await of async_setup_component
EntryPc(mustLock) == IF mustLock THEN "waiting" ELSE "setup"

\* acquires whenever hass.data holds a lock
MustLockIfPresent == lockPresent

\* line 117: if setup_lock and setup_lock.locked()
MustLock == lockPresent /\ locked

\* releases only when the setup call did not raise (no finally)
ReleaseOnReturnOnly(i, outcome) == did_lock[i] /\ outcome # "raise"

\* lines 125-127: finally: if did_lock: setup_lock.release()
ReleaseInFinally(i, outcome) == did_lock[i]

\* fires whenever the setup call returned, whatever it returned
FireOnAnyReturn(outcome) == outcome # "raise"

\* lines 129-130: if not res: return   (a raise never reaches line 129)
ShouldFire(outcome) == outcome = "truthy"

\* lines 132-138: the event data
LoadPlatformData(component, platform, discovered) ==
    IF discovered # None
    THEN [service |-> LoadPlatformService(component), platform |-> platform,
          discovered |-> discovered]
    ELSE [service |-> LoadPlatformService(component), platform |-> platform]

Terminal == {"done", "failed"}

\* A caller outside any setup sequence creates the coroutine's task.
LoadTrigger(i) ==
    /\ pc[i] = "idle"
    /\ \E a \in LoadArgs : largs' = [largs EXCEPT ![i] = a]
    /\ pc' = [pc EXCEPT ![i] = "scheduled"]
    /\ UNCHANGED <<awaited, lockPresent, locked, waiters, woken, setupPc, did_lock, setup_lock,
                   trig, res, acquired, released, fired>>

\* The running setup sequence triggers a platform load: load_platform from
\* its worker thread (lines 92-94) or loop.create_task(async_load_platform);
\* either way the coroutine becomes a task that the loop starts later.
SetupTriggersLoad(i) ==
    /\ setupPc = "running"
    /\ pc[i] = "idle"
    /\ \E a \in LoadArgs : largs' = [largs EXCEPT ![i] = a]
    /\ trig' = [trig EXCEPT ![i] = TRUE]
    /\ pc' = [pc EXCEPT ![i] = "scheduled"]
    /\ UNCHANGED <<awaited, lockPresent, locked, waiters, woken, setupPc, did_lock, setup_lock,
                   res, acquired, released, fired>>

\* lines 115-119, up to the first suspension.  acquire() returns at once
\* when the lock is free and nobody waits, otherwise the caller is queued.
LoadEnter(i) ==
    /\ setup_lock' = [setup_lock EXCEPT ![i] = lockPresent]
    /\ did_lock' = [did_lock EXCEPT ![i] = MustLock]
    /\ IF EntryPc(MustLock) = "waiting"
       THEN IF ~locked /\ waiters = <<>>
            THEN /\ locked' = TRUE
                 /\ acquired' = [acquired EXCEPT ![i] = @ + 1]
                 /\ pc' = [pc EXCEPT ![i] = "setup"]
                 /\ UNCHANGED waiters
            ELSE /\ waiters' = Append(waiters, i)
                 /\ pc' = [pc EXCEPT ![i] = "waiting"]
                 /\ UNCHANGED <<locked, acquired>>
       ELSE /\ pc' = [pc EXCEPT ![i] = "setup"]
            /\ UNCHANGED <<locked, waiters, acquired>>
    /\ UNCHANGED <<lockPresent, woken, res, released, fired>>

\* the loop starts the task of a triggered invocation
LoadStart(i) ==
    /\ pc[i] = "scheduled"
    /\ LoadEnter(i)
    /\ UNCHANGED <<awaited, setupPc, largs, trig>>

\* The running setup sequence yields from async_load_platform directly
\* (what the docstring of lines 110-111 warns against): the coroutine runs
\* inside the setup sequence, which goes on when the coroutine has returned.
SetupAwaitsLoad(i) ==
    /\ setupPc = "running"
    /\ awaited = 0
    /\ pc[i] = "idle"
    /\ \E a \in LoadArgs : largs' = [largs EXCEPT ![i] = a]
    /\ trig' = [trig EXCEPT ![i] = TRUE]
    /\ LoadEnter(i)
    /\ awaited' = i
    /\ setupPc' = "awaiting"

\* line 119 returns: the invocation holds the lock and starts the await of
\* async_setup_component (line 123)
LoadAcquired(i) ==
    /\ pc[i] = "waiting"
    /\ LockResume(i)
    /\ acquired' = [acquired EXCEPT ![i] = @ + 1]
    /\ pc' = [pc EXCEPT ![i] = "setup"]
    /\ UNCHANGED <<awaited, lockPresent, setupPc, did_lock, setup_lock, largs, trig, res,
                   released, fired>>

\* lines 123-140: async_setup_component finishes with `outcome`
LoadSetupReturn(i, outcome) ==
    /\ pc[i] = "setup"
    /\ res' = [res EXCEPT ![i] = outcome]
    /\ IF ReleaseInFinally(i, outcome)
       THEN /\ LockRelease
            /\ released' = [released EXCEPT ![i] = @ + 1]
       ELSE UNCHANGED <<locked, waiters, woken, released>>
    /\ pc' = [pc EXCEPT ![i] = IF outcome = "raise" THEN "failed" ELSE "done"]
    /\ fired' = [fired EXCEPT ![i] =
                    IF ShouldFire(outcome)
                    THEN Append(@, LoadPlatformData(largs[i][1], largs[i][2],
                                                    largs[i][3]))
                    ELSE @]
    /\ UNCHANGED <<awaited, lockPresent, setupPc, did_lock, setup_lock, largs, trig,
                   acquired>>

\* ------------------------------------------------------------------------
\* The component setup sequence that owns the lock (bootstrap)

\* the setup sequence creates the lock if needed and acquires it when free
SetupBegin ==
    /\ setupPc = "idle"
    /\ ~(lockPresent /\ locked)
    /\ lockPresent' = TRUE
    /\ IF waiters = <<>>
       THEN /\ locked' = TRUE
            /\ setupPc' = "running"
            /\ UNCHANGED waiters
       ELSE /\ waiters' = Append(waiters, SetupProc)
            /\ setupPc' = "waiting"
            /\ UNCHANGED locked
    /\ UNCHANGED <<awaited, woken, pc, did_lock, setup_lock, largs, trig, res, acquired,
                   released, fired>>

SetupAcquired ==
    /\ setupPc = "waiting"
    /\ LockResume(SetupProc)
    /\ setupPc' = "running"
    /\ UNCHANGED <<awaited, lockPresent, pc, did_lock, setup_lock, largs, trig, res,
                   acquired, released, fired>>

\* the setup sequence finishes and releases the lock; one that yields from
\* an invocation goes on only when the invocation has returned or raised
SetupFinish ==
    /\ IF setupPc = "awaiting" THEN pc[awaited] \in Terminal
       ELSE setupPc = "running"
    /\ LockRelease
    /\ setupPc' = "idle"
    /\ awaited' = 0
    /\ UNCHANGED <<lockPresent, pc, did_lock, setup_lock, largs, trig, res,
                   acquired, released, fired>>

\* ------------------------------------------------------------------------
GateIdle ==
    /\ lockPresent = FALSE
    /\ locked = FALSE
    /\ waiters = <<>>
    /\ woken = {}
    /\ setupPc = "idle"
    /\ pc = [i \in Loads |-> "idle"]
    /\ did_lock = [i \in Loads |-> FALSE]
    /\ setup_lock = [i \in Loads |-> FALSE]
    /\ largs = [i \in Loads |-> NoArgs]
    /\ trig = [i \in Loads |-> FALSE]
    /\ res = [i \in Loads |-> "none"]
    /\ acquired = [i \in Loads |-> 0]
    /\ released = [i \in Loads |-> 0]
    /\ fired = [i \in Loads |-> <<>>]
    /\ awaited = 0

\* ------------------------------------------------------------------------
\* Discovery bus: listen, discover, async_listen_platform

\* service identifiers announced with discover
Services == {"svc_a", "svc_b", "load_platform.light"}

\* the `service` argument of listen: a string, or a list/tuple of strings
ServiceArgs ==
    {[isStr |-> TRUE,  str |-> "svc_a", list |-> <<>>],
     [isStr |-> TRUE,  str |-> "load_platform.light", list |-> <<>>],
     [isStr |-> FALSE, str |-> None, list |-> <<"svc_b", "svc_a">>]}

\* no argument of that kind was passed
NoServiceArg == [isStr |-> FALSE, str |-> None, list |-> <<>>]

Discovered == {None, "info"}

\* Bound on the number of registered listeners
MaxListeners == 2

\* event.data.get(key)
Get(data, key) == IF key \in DOMAIN data THEN data[key] ELSE None

\* keeps only the first service of a list
ToTupleFirstOnly(arg) == IF arg.isStr THEN <<arg.str>> ELSE <<arg.list[1]>>

\* lines 19-22: a string becomes a 1-tuple, anything else tuple(service)
ToTuple(arg) == IF arg.isStr THEN <<arg.str>> ELSE arg.list

\* line 26: ATTR_SERVICE in event.data and event.data[ATTR_SERVICE] in service
ServiceMatches(data, services) ==
    /\ "service" \in DOMAIN data
    /\ \E k \in 1..Len(services) : services[k] = data.service

\* lines 24-27: discovery_event_listener(event); the calls of callback it makes
DiscoveryEventListener(l, data) ==
    IF ServiceMatches(data, l.services)
    THEN <<[cb |-> l.cb, service |-> data.service,
            discovered |-> Get(data, "discovered")]>>
    ELSE <<>>

\* schedules the callback for every platform value that is present
PlatformWantedNotNone(platform) == platform # None

\* lines 67-70: platform = event.data.get(ATTR_PLATFORM); if not platform: return
PlatformWanted(platform) == platform # None /\ platform # ""

\* lines 62-74: discovery_platform_listener(event); the jobs it schedules
DiscoveryPlatformListener(l, data) ==
    IF Get(data, "service") # l.services[1] THEN <<>>
    ELSE IF ~PlatformWanted(Get(data, "platform")) THEN <<>>
    ELSE <<[cb |-> l.cb, platform |-> Get(data, "platform"),
            discovered |-> Get(data, "discovered")]>>

\* The bus invokes every listener of the event type once per fired event,
\* in registration order.
RECURSIVE DispatchCalls(_, _)
DispatchCalls(ls, data) ==
    IF ls = <<>> THEN <<>>
    ELSE (IF Head(ls).kind = "service"
          THEN DiscoveryEventListener(Head(ls), data) ELSE <<>>)
         \o DispatchCalls(Tail(ls), data)

RECURSIVE DispatchJobs(_, _)
DispatchJobs(ls, data) ==
    IF ls = <<>> THEN <<>>
    ELSE (IF Head(ls).kind = "platform"
          THEN DiscoveryPlatformListener(Head(ls), data) ELSE <<>>)
         \o DispatchJobs(Tail(ls), data)

\* hass.bus.fire / async_fire(EVENT_PLATFORM_DISCOVERED, data)
BusFire(data, kind, discovered) ==
    /\ lastEvent' = data
    /\ lastKind' = kind
    /\ lastDisc' = discovered
    /\ afterReturn' = (lpThread = "returned")
    /\ nAtPub' = Len(listeners)
    /\ calls' = DispatchCalls(listeners, data)
    /\ jobs' = DispatchJobs(listeners, data)

\* lines 14-29: listen(hass, service, callback)
Listen(arg) ==
    /\ Len(listeners) < MaxListeners
    /\ listeners' = Append(listeners,
           [kind |-> "service", services |-> ToTuple(arg), arg |-> arg,
            component |-> None, cb |-> Len(listeners) + 1])
    /\ UNCHANGED <<componentsUp, pubVars, bridgeVars>>

\* lines 47-77: listen_platform / async_listen_platform(hass, component, cb)
ListenPlatform(component) ==
    /\ Len(listeners) < MaxListeners
    /\ listeners' = Append(listeners,
           [kind |-> "platform", services |-> <<LoadPlatformService(component)>>,
            arg |-> NoServiceArg, component |-> component,
            cb |-> Len(listeners) + 1])
    /\ UNCHANGED <<componentsUp, pubVars, bridgeVars>>

\* the thread goes on without the result of the callback
ResultNotAwaited(job) == TRUE

\* lines 49-51: .result() blocks until the callback has run on the loop
ResultReady(job) == job \in {"registered", "failed"}

\* lines 47-51: a thread calls listen_platform; run_callback_threadsafe
\* hands async_listen_platform to the event loop
ListenPlatformCall(component) ==
    /\ lpThread = "idle"
    /\ lpThread' = "blocked"
    /\ lpJob' = "pending"
    /\ lpComp' = component
    /\ UNCHANGED <<listeners, componentsUp, pubVars, lpCb>>

\* lines 54-77: the loop runs async_listen_platform for the thread; the
\* registration adds the listener or raises
ListenPlatformRuns(ok) ==
    /\ lpJob = "pending"
    /\ ok => Len(listeners) < MaxListeners
    /\ IF ok
       THEN /\ listeners' = Append(listeners,
                   [kind |-> "platform",
                    services |-> <<LoadPlatformService(lpComp)>>,
                    arg |-> NoServiceArg, component |-> lpComp,
                    cb |-> Len(listeners) + 1])
            /\ lpCb' = Len(listeners) + 1
            /\ lpJob' = "registered"
       ELSE /\ lpJob' = "failed"
            /\ UNCHANGED <<listeners, lpCb>>
    /\ UNCHANGED <<componentsUp, pubVars, lpThread, lpComp>>

\* line 51: .result() returns to the thread, or raises what the callback
\* raised
ListenPlatformReturn ==
    /\ lpThread = "blocked"
    /\ ResultReady(lpJob)
    /\ lpThread' = IF lpJob = "failed" THEN "raised" ELSE "returned"
    /\ UNCHANGED <<listeners, componentsUp, pubVars, lpJob, lpComp, lpCb>>

\* lines 37-42: the event data of discover
DiscoverData(service, discovered) ==
    IF discovered # None
    THEN [service |-> service, discovered |-> discovered]
    ELSE [service |-> service]

\* lines 32-44: discover(hass, service, discovered, component); setup_ok is
\* what bootstrap.setup_component does with the component
Discover(service, discovered, component, setup_ok) ==
    /\ componentsUp' = IF component # None /\ setup_ok
                       THEN componentsUp \cup {component} ELSE componentsUp
    /\ BusFire(DiscoverData(service, discovered), "discover", discovered)
    /\ lastComp' = component
    /\ UNCHANGED <<listeners, bridgeVars>>

\* lines 129-140: an async_load_platform whose setup succeeded fires its event
LoadPlatformFires(a) ==
    /\ componentsUp' = componentsUp \cup {a[1]}
    /\ BusFire(LoadPlatformData(a[1], a[2], a[3]), "load", a[3])
    /\ lastComp' = a[1]
    /\ UNCHANGED <<listeners, bridgeVars>>

\* event data other publishers fire under EVENT_PLATFORM_DISCOVERED
ForeignData == {[platform |-> "hue"],
                [service |-> "load_platform.switch", platform |-> "mqtt"]}

ForeignFire(data) ==
    /\ BusFire(data, "foreign", Get(data, "discovered"))
    /\ lastComp' = None
    /\ UNCHANGED <<listeners, componentsUp, bridgeVars>>

NoEvent == [none |-> TRUE]

BusIdle ==
    /\ listeners = <<>>
    /\ componentsUp = {}
    /\ lastEvent = NoEvent
    /\ lastKind = "none"
    /\ lastDisc = None
    /\ lastComp = None
    /\ afterReturn = FALSE
    /\ nAtPub = 0
    /\ calls = <<>>
    /\ jobs = <<>>
    /\ lpThread = "idle"
    /\ lpJob = "none"
    /\ lpComp = None
    /\ lpCb = 0

\* ------------------------------------------------------------------------
\* YrData.async_update (components/sensor/yr.py)

\* yr.py:147  timedelta(minutes=15), in clock units of one minute
RetryDelay == 15

\* The clock ticks minute by minute up to MaxTime; later it only jumps to
\* the due time of an armed timer.
MaxTime == 2

\* Bound on the async_update invocations in progress at the same time
MaxInFlight == 2

\* a local variable that has not been assigned
Unbound == "<unbound>"

\* sensor types, one per branch shape of lines 195-214: symbol checks
\* valid_from, temperature does not, windDirection converts with float()
Kinds == {"symbol", "temperature", "windDirection"}

\* CONF_MONITORED_CONDITIONS
DeviceConfigs == {<<"temperature", "windDirection">>,
                  <<"symbol", "temperature">>,
                  <<"temperature", "symbol">>}

\* location data of a time entry: the attribute each sensor type reads
Locs == {("temperature" :> "5"),
         ("symbol" :> "1" @@ "temperature" :> "7" @@ "windDirection" :> "270"),
         ("temperature" :> "5" @@ "windDirection" :> "N/A")}

\* time entries (@from, @to, location)
Windows == {[from |-> sp[1], to |-> sp[2], loc |-> l] :
               sp \in {<<0, 2>>, <<1, 3>>}, l \in Locs}

WindowSeqs == {<<w>> : w \in Windows}
              \cup {<<w1, w2>> : w1 \in Windows, w2 \in Windows}

\* @nextrun values of the payload
NextRuns == {1, 3}

ModelEntry(has, t) == [has |-> has, nextrun |-> t]

\* meta/model is one element (a dict) or several (a list of dicts)
DictModel(has, t) == [isList |-> FALSE, items |-> <<ModelEntry(has, t)>>]

ListModel(has, t) ==
    [isList |-> TRUE, items |-> <<ModelEntry(has, t), ModelEntry(FALSE, 0)>>]

\* response bodies: not XML at all, a weatherdata without meta/model, a
\* model without @nextrun, and well-formed forecasts
BadPayloads ==
    {[shape |-> "expat", model |-> DictModel(FALSE, 0), windows |-> <<>>],
     [shape |-> "nokey", model |-> DictModel(FALSE, 0), windows |-> <<>>],
     [shape |-> "ok", model |-> DictModel(FALSE, 0), windows |-> <<>>],
     [shape |-> "ok", model |-> ListModel(FALSE, 0), windows |-> <<>>]}

GoodPayloads ==
    {[shape |-> "ok", model |-> DictModel(TRUE, t), windows |-> ws] :
        t \in NextRuns, ws \in WindowSeqs}
    \cup {[shape |-> "ok", model |-> ListModel(TRUE, t), windows |-> <<>>] :
        t \in NextRuns}

Payloads == BadPayloads \cup GoodPayloads

NoData == [shape |-> "none", model |-> DictModel(FALSE, 0), windows |-> <<>>]

\* lines 167-172: parse the body and read the next run; the result is the
\* timestamp or the exception raised on the way
NextRunOf(p) ==
    IF p.shape = "expat" THEN [exc |-> "ExpatError", next_run |-> 0]
    ELSE IF p.shape = "nokey" THEN [exc |-> "KeyError", next_run |-> 0]
    ELSE IF ~p.model.isList /\ p.model.items[1].has
         THEN [exc |-> None, next_run |-> p.model.items[1].nextrun]
    ELSE IF ~p.model.isList
         THEN [exc |-> "KeyError", next_run |-> 0]       \* model[0] on a dict
    ELSE IF Len(p.model.items) = 0
         THEN [exc |-> "IndexError", next_run |-> 0]
    ELSE IF ~p.model.items[1].has
         THEN [exc |-> "KeyError", next_run |-> 0]       \* model['@nextrun']
    ELSE [exc |-> None, next_run |-> p.model.items[1].nextrun]

\* line 173: except (ExpatError, IndexError)
ParseCaught(exc) == exc \in {"ExpatError", "IndexError"}

\* lines 158-164: except asyncio.TimeoutError / except HTTPException
FetchCaught(exc) == exc \in {"TimeoutError", "HTTPException"}

\* line 209: float(loc_data[dev.type]['@deg'])
ParseFloat(raw) ==
    CASE raw = "270" -> "270.0"
      [] raw = "90" -> "90.0"
      [] OTHER -> "ValueError"

\* the start of the entry is not compared for any type
TakesNoStartCheck(kind, w, n) ==
    /\ kind \in DOMAIN w.loc
    /\ ~(n >= w.to)

\* lines 192-214: the time entry is taken for a device of this type
Takes(kind, w, n) ==
    /\ kind \in DOMAIN w.loc
    /\ ~(n >= w.to)
    /\ (kind \in {"precipitation", "symbol"} => w.from < n)

\* lines 186-214: index of the first time entry taken, 0 if the loop ends
\* without a break
SelectIdx(kind, ws, n) ==
    LET idx == {k \in 1..Len(ws) : Takes(kind, ws[k], n)}
    IN  IF idx = {} THEN 0 ELSE CHOOSE k \in idx : \A m \in idx : k <= m

\* lines 196-213: the value read from a taken entry
Extract(kind, w) ==
    IF kind = "windDirection" THEN ParseFloat(w.loc[kind]) ELSE w.loc[kind]

\* line 217: if new_state != dev._state
Changed(new_state, old) == new_state # old

\* lines 184-219: the loop over self.devices from device d on.  st carries
\* the device states, the local new_state, the tasks appended, the number
\* of devices whose comparison ran, and the exception that ended the loop.
RECURSIVE UpdateLoop(_, _, _, _, _)
UpdateLoop(d, devs, ws, n, st) ==
    IF d > Len(devs) THEN st
    ELSE
      LET k  == SelectIdx(devs[d], ws, n)
          v  == IF k = 0 THEN st.new_state ELSE Extract(devs[d], ws[k])
      IN  IF k # 0 /\ v = "ValueError"
          THEN [st EXCEPT !.exc = "ValueError"]
          ELSE IF v = Unbound
          THEN [st EXCEPT !.exc = "UnboundLocalError"]
          ELSE UpdateLoop(d + 1, devs, ws, n,
                 [st EXCEPT
                    !.new_state = v,
                    !.done = d,
                    !.states = IF Changed(v, st.states[d])
                               THEN [@ EXCEPT ![d] = v] ELSE @,
                    !.tasks = IF Changed(v, st.states[d])
                              THEN Append(@, d) ELSE @])

\* arms the retry and the next run both
ScheduleNextAndRetry(ts, next_run, n) == Append(Append(ts, n + RetryDelay), next_run)

\* line 178: async_track_point_in_utc_time(self.hass, self.async_update, next_run)
ScheduleNext(ts, next_run, n) == Append(ts, next_run)

\* the next run is scheduled after the device loop, if that ends
ReachesScheduleAfterLoop(exc) == exc = None

\* lines 176-184: the next run is scheduled before the device loop starts,
\* whatever the loop then raises
ReachesSchedule(exc) == TRUE

\* lines 144-148: try_again arms a timer RetryDelay from now
TryAgain(ts, n) == Append(ts, n + RetryDelay)

InFlightTotal == inflight.fetching + inflight.reading + inflight.gathering

\* ev: the step ("fetch", "text", "update"), the category of what the
\* invocation was given, the timers the step armed (retry: due RetryDelay
\* after now; next: any other), the warnings logged, the exception that left
\* async_update, the device states before the step, the number of devices
\* whose comparison ran, the state tasks started, the time of the step and
\* the due time of the timer it armed last
NoEv == [step |-> "none", cause |-> "none", armedRetry |-> 0, armedNext |-> 0,
         warned |-> 0, escaped |-> None, prev |-> <<>>, done |-> 0,
         emitted |-> <<>>, at |-> 0, due |-> 0]



\* outcome of a step that ended in try_again
RetryEv(step, cause) ==
    [NoEv EXCEPT !.step = step, !.cause = cause,
                 !.armedRetry = Len(timers') - Len(timers),
                 !.due = timers'[Len(timers')],
                 !.warned = 1, !.prev = devState, !.at = now]

\* outcome of a step that ended with an exception leaving async_update
EscapeEv(step, cause, exc) ==
    [NoEv EXCEPT !.step = step, !.cause = cause, !.escaped = exc,
                 !.prev = devState, !.at = now]

\* lines 60-79: async_setup_platform creates the devices and the YrData and
\* awaits the first async_update
YrActivate ==
    /\ ~activated
    /\ activated' = TRUE
    /\ inflight' = [inflight EXCEPT !.fetching = @ + 1]
    /\ UNCHANGED <<now, devices, devState, selfData, timers, ev>>

\* an armed timer whose point in time has come calls async_update, once
TimerFire(k) ==
    /\ k \in 1..Len(timers)
    /\ timers[k] <= now
    /\ InFlightTotal < MaxInFlight
    /\ timers' = [j \in 1..(Len(timers) - 1) |->
                     IF j < k THEN timers[j] ELSE timers[j + 1]]
    /\ inflight' = [inflight EXCEPT !.fetching = @ + 1]
    /\ UNCHANGED <<now, activated, devices, devState, selfData, ev>>

\* what the GET of line 152 ends with
FetchOutcomes == {"status200", "status503", "TimeoutError", "HTTPException",
                  "ClientError"}

\* lines 150-155, 158-164: the GET returns or raises
FetchReturn(outcome) ==
    /\ inflight.fetching > 0
    /\ CASE outcome = "status200" ->
              /\ inflight' = [inflight EXCEPT !.fetching = @ - 1,
                                              !.reading = @ + 1]
              /\ ev' = [NoEv EXCEPT !.step = "fetch", !.cause = "ok",
                                    !.prev = devState, !.at = now]
              /\ UNCHANGED timers
         [] outcome = "status503" ->
              /\ inflight' = [inflight EXCEPT !.fetching = @ - 1]
              /\ timers' = TryAgain(timers, now)
              /\ ev' = RetryEv("fetch", "status")
         [] outcome = "TimeoutError" ->
              /\ inflight' = [inflight EXCEPT !.fetching = @ - 1]
              /\ timers' = TryAgain(timers, now)
              /\ ev' = RetryEv("fetch", "timeout")
         [] outcome = "HTTPException" ->
              \* line 162: resp.close() with resp never assigned
              /\ inflight' = [inflight EXCEPT !.fetching = @ - 1]
              /\ ev' = EscapeEv("fetch", "transport", "UnboundLocalError")
              /\ UNCHANGED timers
         [] outcome = "ClientError" ->
              /\ inflight' = [inflight EXCEPT !.fetching = @ - 1]
              /\ IF FetchCaught(outcome)
                 THEN /\ timers' = TryAgain(timers, now)
                      /\ ev' = RetryEv("fetch", "transport")
                 ELSE /\ ev' = EscapeEv("fetch", "transport", outcome)
                      /\ UNCHANGED timers
    /\ UNCHANGED <<now, activated, devices, devState, selfData>>

\* self.data is replaced by whatever the body is
AssignsDataAlways(p) == TRUE

\* line 168: self.data = xmltodict.parse(text)['weatherdata'] assigns only
\* when the body parses
AssignsData(p) == p.shape # "expat"

\* the failure category of a response body, "ok" for a usable one
PayloadCause(p) ==
    IF p.shape \in {"expat", "nokey"} THEN "malformed"
    ELSE IF \/ (~p.model.isList /\ ~p.model.items[1].has)
            \/ (p.model.isList /\ ~p.model.items[1].has)
         THEN "missing_nextrun"
    ELSE "ok"

\* lines 156-157, 166-221: resp.text() returns the body; parse, schedule
\* the next run, update the devices, start the state tasks
TextReturn(p) ==
    /\ inflight.reading > 0
    /\ selfData' = IF AssignsData(p) THEN p ELSE selfData
    /\ LET r == NextRunOf(p)
           st0 == [states |-> devState, new_state |-> Unbound, tasks |-> <<>>,
                   done |-> 0, exc |-> None]
           st == UpdateLoop(1, devices, p.windows, now, st0)
       IN  IF r.exc # None
           THEN /\ inflight' = [inflight EXCEPT !.reading = @ - 1]
                /\ UNCHANGED devState
                /\ IF ParseCaught(r.exc)
                   THEN /\ timers' = TryAgain(timers, now)
                        /\ ev' = RetryEv("text", PayloadCause(p))
                   ELSE /\ UNCHANGED timers
                        /\ ev' = EscapeEv("text", PayloadCause(p), r.exc)
           ELSE /\ timers' = IF ReachesSchedule(st.exc)
                               THEN ScheduleNext(timers, r.next_run, now)
                               ELSE timers
                /\ devState' = st.states
                /\ inflight' = IF st.exc = None
                               THEN [inflight EXCEPT !.reading = @ - 1,
                                                     !.gathering = @ + 1]
                               ELSE [inflight EXCEPT !.reading = @ - 1]
                /\ ev' = [NoEv EXCEPT
                            !.step = "update", !.cause = "ok",
                            !.armedNext = Len(timers') - Len(timers),
                            !.due = IF timers' = <<>> THEN 0
                                    ELSE timers'[Len(timers')],
                            !.escaped = st.exc, !.prev = devState,
                            !.done = st.done,
                            !.emitted = IF st.exc = None THEN st.tasks ELSE <<>>,
                            !.at = now]
    /\ UNCHANGED <<now, activated, devices>>

\* resp.text() raises HTTPException: lines 161-164 close resp and retry
TextFails ==
    /\ inflight.reading > 0
    /\ inflight' = [inflight EXCEPT !.reading = @ - 1]
    /\ timers' = TryAgain(timers, now)
    /\ ev' = RetryEv("text", "transport")
    /\ UNCHANGED <<now, activated, devices, devState, selfData>>

\* line 221: the gathered state tasks have finished
GatherDone ==
    /\ inflight.gathering > 0
    /\ inflight' = [inflight EXCEPT !.gathering = @ - 1]
    /\ UNCHANGED <<now, activated, devices, devState, selfData, timers, ev>>

\* a minute passes
Tick ==
    /\ now < MaxTime
    /\ now' = now + 1
    /\ UNCHANGED <<activated, devices, devState, selfData, timers, inflight, ev>>

\* time passes until an armed timer is due
AdvanceToTimer(k) ==
    /\ k \in 1..Len(timers)
    /\ timers[k] > now
    /\ timers[k] <= MaxTime + RetryDelay
    /\ now' = timers[k]
    /\ UNCHANGED <<activated, devices, devState, selfData, timers, inflight, ev>>

YrIdle ==
    /\ now = 0
    /\ activated = FALSE
    /\ devices = <<>>
    /\ devState = <<>>
    /\ selfData = NoData
    /\ timers = <<>>
    /\ inflight = [fetching |-> 0, reading |-> 0, gathering |-> 0]
    /\ ev = NoEv

\* ------------------------------------------------------------------------
\* Specifications

\* hass.data may or may not hold a 'setup_lock' left by an earlier setup
InitGate ==
    /\ lockPresent \in BOOLEAN
    /\ locked = FALSE
    /\ waiters = <<>>
    /\ woken = {}
    /\ setupPc = "idle"
    /\ pc = [i \in Loads |-> "idle"]
    /\ did_lock = [i \in Loads |-> FALSE]
    /\ setup_lock = [i \in Loads |-> FALSE]
    /\ largs = [i \in Loads |-> NoArgs]
    /\ trig = [i \in Loads |-> FALSE]
    /\ res = [i \in Loads |-> "none"]
    /\ acquired = [i \in Loads |-> 0]
    /\ released = [i \in Loads |-> 0]
    /\ fired = [i \in Loads |-> <<>>]
    /\ awaited = 0
    /\ BusIdle
    /\ YrIdle

NextGate ==
    \/ \E i \in Loads : LoadTrigger(i) /\ UNCHANGED <<busVars, yrVars>>
    \/ \E i \in Loads : SetupTriggersLoad(i) /\ UNCHANGED <<busVars, yrVars>>
    \/ \E i \in Loads : LoadStart(i) /\ UNCHANGED <<busVars, yrVars>>
    \/ \E i \in Loads : LoadAcquired(i) /\ UNCHANGED <<busVars, yrVars>>
    \/ \E i \in Loads : \E o \in {"truthy", "falsy", "raise"} :
          LoadSetupReturn(i, o) /\ UNCHANGED <<busVars, yrVars>>
    \/ SetupBegin /\ UNCHANGED <<busVars, yrVars>>
    \/ SetupAcquired /\ UNCHANGED <<busVars, yrVars>>
    \/ SetupFinish /\ UNCHANGED <<busVars, yrVars>>

SpecGate == InitGate /\ [][NextGate]_vars

\* the same, with setup sequences that also yield from async_load_platform
NextGateAwait ==
    \/ NextGate
    \/ \E i \in Loads : SetupAwaitsLoad(i) /\ UNCHANGED <<busVars, yrVars>>

SpecGateAwait == InitGate /\ [][NextGateAwait]_vars

\* The loop runs every ready task, async_setup_component returns or raises,
\* and a setup sequence that holds the lock finishes.
FairSpecGate ==
    /\ SpecGate
    /\ \A i \in Loads : WF_vars(LoadStart(i) /\ UNCHANGED <<busVars, yrVars>>)
    /\ \A i \in Loads : WF_vars(LoadAcquired(i) /\ UNCHANGED <<busVars, yrVars>>)
    /\ \A i \in Loads : WF_vars((\E o \in {"truthy", "falsy", "raise"} :
                                   LoadSetupReturn(i, o)) /\ UNCHANGED <<busVars, yrVars>>)
    /\ WF_vars(SetupAcquired /\ UNCHANGED <<busVars, yrVars>>)
    /\ WF_vars(SetupFinish /\ UNCHANGED <<busVars, yrVars>>)

InitBus ==
    /\ GateIdle
    /\ BusIdle
    /\ YrIdle

NextBus ==
    \/ \E arg \in ServiceArgs : Listen(arg) /\ UNCHANGED <<gateVars, yrVars>>
    \/ \E c \in Components : ListenPlatform(c) /\ UNCHANGED <<gateVars, yrVars>>
    \/ \E s \in Services, d \in Discovered, c \in Components \cup {None},
          ok \in BOOLEAN : Discover(s, d, c, ok) /\ UNCHANGED <<gateVars, yrVars>>
    \/ \E a \in LoadArgs : LoadPlatformFires(a) /\ UNCHANGED <<gateVars, yrVars>>
    \/ \E fd \in ForeignData : ForeignFire(fd) /\ UNCHANGED <<gateVars, yrVars>>

SpecBus == InitBus /\ [][NextBus]_vars

\* a thread that calls listen_platform, next to platform listeners
\* registered on the loop and the publishers of events
NextBridge ==
    \/ \E c \in Components : ListenPlatformCall(c)
                                 /\ UNCHANGED <<gateVars, yrVars>>
    \/ \E ok \in BOOLEAN : ListenPlatformRuns(ok)
                              /\ UNCHANGED <<gateVars, yrVars>>
    \/ ListenPlatformReturn /\ UNCHANGED <<gateVars, yrVars>>
    \/ \E c \in Components : ListenPlatform(c) /\ UNCHANGED <<gateVars, yrVars>>
    \/ \E s \in Services, d \in Discovered, c \in Components \cup {None},
          ok \in BOOLEAN : Discover(s, d, c, ok) /\ UNCHANGED <<gateVars, yrVars>>
    \/ \E a \in LoadArgs : LoadPlatformFires(a) /\ UNCHANGED <<gateVars, yrVars>>
    \/ \E fd \in ForeignData : ForeignFire(fd) /\ UNCHANGED <<gateVars, yrVars>>

SpecBridge == InitBus /\ [][NextBridge]_vars

\* the YrData of a platform set-up with some monitored conditions; every
\* YrSensor starts with _state None (line 90)
InitYr ==
    /\ GateIdle
    /\ BusIdle
    /\ now = 0
    /\ activated = FALSE
    /\ devices \in DeviceConfigs
    /\ devState = [d \in 1..Len(devices) |-> None]
    /\ selfData = NoData
    /\ timers = <<>>
    /\ inflight = [fetching |-> 0, reading |-> 0, gathering |-> 0]
    /\ ev = NoEv

NextYr ==
    \/ YrActivate /\ UNCHANGED <<gateVars, busVars>>
    \/ \E k \in 1..Len(timers) : TimerFire(k) /\ UNCHANGED <<gateVars, busVars>>
    \/ \E o \in FetchOutcomes : FetchReturn(o) /\ UNCHANGED <<gateVars, busVars>>
    \/ \E p \in Payloads : TextReturn(p) /\ UNCHANGED <<gateVars, busVars>>
    \/ TextFails /\ UNCHANGED <<gateVars, busVars>>
    \/ GatherDone /\ UNCHANGED <<gateVars, busVars>>
    \/ Tick /\ UNCHANGED <<gateVars, busVars>>
    \/ \E k \in 1..Len(timers) : AdvanceToTimer(k)
                                   /\ UNCHANGED <<gateVars, busVars>>

SpecYr == InitYr /\ [][NextYr]_vars

\* ------------------------------------------------------------------------
\* Properties of async_load_platform and the setup lock

InRegion(i) == pc[i] = "setup"

\* C1 (as stated): with a setup_lock present, at most one invocation is
\* between the start and the end of its await of async_setup_component.
C1_AtMostOneInRegion ==
    Cardinality({i \in Loads : InRegion(i) /\ setup_lock[i]}) <= 1

\* C1 (amended): an invocation that acquired the lock holds it for its whole
\* await of async_setup_component, so no setup sequence owns the lock and no
\* other acquiring invocation is inside that await at the same time;
\* invocations that found the lock free are not serialised.
C1_LockedRegionExclusive ==
    \A i \in Loads :
        (InRegion(i) /\ did_lock[i]) =>
            /\ locked
            /\ setupPc # "running"
            /\ \A j \in Loads \ {i} : ~(InRegion(j) /\ did_lock[j])

C1_Witness ==
    \E i, j \in Loads :
        /\ i # j
        /\ InRegion(i) /\ did_lock[i]
        /\ pc[j] = "waiting"

\* C2: release() is called exactly by the invocations that acquired the
\* lock, once, on every exit of the setup call (return or raise); it is never
\* called by an invocation that does not hold the lock.
C2_ReleaseIffAcquired ==
    \A i \in Loads :
        /\ released[i] <= acquired[i]
        /\ acquired[i] <= 1
        /\ (pc[i] \in Terminal => released[i] = acquired[i])
        /\ (~did_lock[i] => released[i] = 0 /\ acquired[i] = 0)
        /\ (InRegion(i) => acquired[i] = (IF did_lock[i] THEN 1 ELSE 0))

C2_Witness ==
    \E i, j \in Loads :
        /\ pc[i] = "failed" /\ acquired[i] = 1 /\ released[i] = 1
        /\ pc[j] = "done" /\ ~did_lock[j] /\ released[j] = 0

\* C3 (as stated): a load triggered from inside a setup sequence always
\* acquires the lock before it completes.
C3_LoadAlwaysAcquires ==
    \A i \in Loads : (trig[i] /\ pc[i] \in Terminal) => acquired[i] = 1

\* C3 (amended): a load triggered from inside a setup sequence never
\* deadlocks against it: it always completes the async_setup_component call
\* holding nothing afterwards, and if it found the lock held when it started
\* to run, it gets the lock once the holder has released it.
C3_LoadCompletes ==
    /\ \A i \in Loads :
          (trig[i] /\ pc[i] = "scheduled") ~>
              (pc[i] \in Terminal /\ res[i] # "none"
                 /\ released[i] = acquired[i])
    /\ \A i \in Loads :
          (trig[i] /\ pc[i] = "waiting") ~>
              (InRegion(i) /\ acquired[i] = 1 /\ locked)

C3_Witness ==
    \E i \in Loads :
        /\ trig[i] /\ pc[i] \in Terminal
        /\ acquired[i] = 1 /\ released[i] = 1
        /\ setupPc = "idle"

\* C8: exactly one EVENT_PLATFORM_DISCOVERED event, for the invocation's
\* (component, platform), is fired after async_setup_component returned a
\* truthy result; none after a falsy result or a raise, and none before the
\* setup call has finished.
C8_FireOnlyOnSuccess ==
    \A i \in Loads :
        /\ (pc[i] \notin Terminal => fired[i] = <<>>)
        /\ (res[i] \in {"falsy", "raise"} => fired[i] = <<>>)
        /\ (res[i] = "truthy" =>
               /\ Len(fired[i]) = 1
               /\ fired[i][1].service = LoadPlatformService(largs[i][1])
               /\ fired[i][1].platform = largs[i][2])

C8_Witness ==
    \E i, j \in Loads :
        /\ res[i] = "truthy" /\ Len(fired[i]) = 1
        /\ res[j] = "falsy" /\ pc[j] = "done"

\* ------------------------------------------------------------------------
\* Properties of the discovery bus

\* the services a listen(...) registration asked for
ArgSet(arg) ==
    IF arg.isStr THEN {arg.str} ELSE {arg.list[k] : k \in 1..Len(arg.list)}

ListenersAtPub == SubSeq(listeners, 1, nAtPub)

\* C7: for a publication discover(s, discovered), the callbacks invoked are
\* exactly those of the listen registrations whose services contain s, each
\* once, with (s, discovered), in registration order.
C7_DiscoverDelivery ==
    lastKind = "discover" =>
        LET ls == SelectSeq(ListenersAtPub,
                      LAMBDA l : l.kind = "service"
                                 /\ lastEvent.service \in ArgSet(l.arg))
        IN  /\ Len(calls) = Len(ls)
            /\ \A k \in 1..Len(ls) :
                  calls[k] = [cb |-> ls[k].cb, service |-> lastEvent.service,
                              discovered |-> lastDisc]

C7_Witness ==
    /\ lastKind = "discover"
    /\ nAtPub = 2
    /\ Len(calls) = 2
    /\ calls[1].cb = 1 /\ calls[2].cb = 2
    /\ ~listeners[1].arg.isStr

\* C9: for every event fired on the bus, the jobs scheduled are exactly
\* callback(platform, discovered) of the platform listeners of component c
\* for which the event's service is "load_platform." + c and its platform
\* is present and non-empty, each once; no other event schedules anything.
C9_PlatformDelivery ==
    lastKind # "none" =>
        LET hasPlatform == /\ "platform" \in DOMAIN lastEvent
                           /\ lastEvent.platform \notin {None, ""}
            ls == SelectSeq(ListenersAtPub,
                      LAMBDA l : /\ l.kind = "platform"
                                 /\ hasPlatform
                                 /\ "service" \in DOMAIN lastEvent
                                 /\ lastEvent.service
                                       = "load_platform." \o l.component)
        IN  /\ Len(jobs) = Len(ls)
            /\ \A k \in 1..Len(ls) :
                  jobs[k] = [cb |-> ls[k].cb, platform |-> lastEvent.platform,
                             discovered |-> lastDisc]

C9_Witness ==
    /\ lastKind = "load"
    /\ nAtPub = 2
    /\ listeners[1].kind = "platform" /\ listeners[2].kind = "platform"
    /\ listeners[1].component # listeners[2].component
    /\ Len(jobs) = 1

\* ------------------------------------------------------------------------
\* Properties of the YrData poll cycle

FailureCauses == {"timeout", "status", "malformed", "missing_nextrun"}

\* C4: a cycle that meets a request timeout, a non-200 status, a malformed
\* payload or a payload without next-run timestamp arms exactly one timer,
\* due RetryDelay later, and no exception leaves async_update.
C4_FailureArmsOneRetry ==
    ev.cause \in FailureCauses =>
        /\ ev.escaped = None
        /\ ev.armedRetry = 1
        /\ ev.armedNext = 0
        /\ ev.due = ev.at + RetryDelay

\* C5: once activated, a cycle is in progress or a timer that will call
\* async_update is armed.
C5_AlwaysRearmed ==
    activated => (InFlightTotal > 0 \/ Len(timers) > 0)

\* C6: at most one armed timer targets async_update at any time.
C6_AtMostOneTimer == Len(timers) <= 1

C6_Witness ==
    /\ Len(timers) = 1
    /\ inflight.gathering = 2
    /\ ev.step = "update" /\ ev.armedNext = 1

\* C10: in a cycle that reaches the update of the targets, for every target
\* whose comparison ran with a value extracted for it from the payload: an
\* equal value leaves the target alone and starts no state task, a different
\* value is stored and exactly one state task is started for the target.
C10_NotifyIffChanged ==
    ev.step = "update" =>
        \A d \in 1..ev.done :
            LET k == SelectIdx(devices[d], selfData.windows, ev.at)
                n == Cardinality({j \in 1..Len(ev.emitted) : ev.emitted[j] = d})
            IN  k # 0 =>
                  LET v == Extract(devices[d], selfData.windows[k])
                  IN  /\ (v = ev.prev[d] => n = 0 /\ devState[d] = ev.prev[d])
                      /\ (v # ev.prev[d] => n = 1 /\ devState[d] = v)

\* the entries of the payload that carry the type, have not ended, and have
\* started or need not have: only precipitation and symbol compare the start
Candidates(kind, ws, n, startChecked) ==
    {k \in 1..Len(ws) : /\ kind \in DOMAIN ws[k].loc
                        /\ ws[k].to > n
                        /\ (kind \in startChecked => ws[k].from < n)}

FirstOf(idx) == IF idx = {} THEN 0 ELSE CHOOSE k \in idx : \A m \in idx : k <= m

\* C11 (as stated): for every target kind the entry used is the first, in
\* payload order, that carries the kind, started before now and ends after
\* now; an entry that has not started before now is never used.
C11_StartedWindowSelected ==
    ev.step = "update" =>
        \A d \in 1..Len(devices) :
            LET ws == selfData.windows
                k == SelectIdx(devices[d], ws, ev.at)
            IN  /\ k = FirstOf(Candidates(devices[d], ws, ev.at, Kinds))
                /\ k # 0 => ws[k].from < ev.at /\ ws[k].to > ev.at

\* C11 (amended): the entry used is the first, in payload order, that
\* carries the kind and ends after now, and for symbol and precipitation
\* also started before now; the value of a target whose comparison ran with
\* such an entry is the value read from it.
C11_WindowSelected ==
    ev.step = "update" =>
        \A d \in 1..Len(devices) :
            LET ws == selfData.windows
                k == SelectIdx(devices[d], ws, ev.at)
            IN  /\ k = FirstOf(Candidates(devices[d], ws, ev.at,
                                          {"precipitation", "symbol"}))
                /\ k # 0 => ws[k].to > ev.at
                /\ (k # 0 /\ devices[d] \in {"precipitation", "symbol"})
                      => ws[k].from < ev.at
                /\ (k # 0 /\ d <= ev.done)
                      => devState[d] = Extract(devices[d], ws[k])

\* a symbol target passed over an entry that has not started and took a
\* later one; a temperature target took an entry that has not started
C11_Witness ==
    /\ ev.step = "update"
    /\ ev.done = Len(devices)
    /\ \E d \in 1..Len(devices) :
          /\ devices[d] = "symbol"
          /\ SelectIdx("symbol", selfData.windows, ev.at) = 2
          /\ "symbol" \in DOMAIN selfData.windows[1].loc
          /\ devState[d] = "1"
    /\ \E d \in 1..Len(devices) :
          /\ devices[d] = "temperature"
          /\ selfData.windows[1].from >= ev.at
          /\ SelectIdx("temperature", selfData.windows, ev.at) = 1

\* C12: a step of a cycle that ends in try_again (non-200 status, timeout,
\* failed read, body that does not parse) changes no target's value, starts
\* no state task and leaves self.data alone; it logs one warning and arms
\* one timer due RetryDelay later.
C12_RetryFrame ==
    [][(Len(timers') > Len(timers) /\ ev'.armedRetry >= 1) =>
          /\ devState' = devState
          /\ selfData' = selfData
          /\ devices' = devices
          /\ ev'.emitted = <<>>
          /\ ev'.warned = 1
          /\ ev'.escaped = None
          /\ timers' = Append(timers, now + RetryDelay)]_vars

\* a body that does not parse arrives after an earlier cycle stored values
C12_Witness ==
    /\ ev.armedRetry = 1
    /\ ev.cause = "malformed"
    /\ selfData.shape = "ok"
    /\ \E d \in 1..Len(devices) : devState[d] # None

\* C13: a GET that raises before any response exists is handled like the
\* other failures: one warning, one timer due RetryDelay later, and no
\* exception leaves async_update.
C13_TransportFailureRetries ==
    (ev.step = "fetch" /\ ev.cause = "transport") =>
        /\ ev.escaped = None
        /\ ev.warned = 1
        /\ ev.armedRetry = 1
        /\ ev.due = ev.at + RetryDelay

\* C14: an event that discover publishes for a component is published with
\* that component set up.
C14_PublishedOnlyIfSetUp ==
    (lastKind = "discover" /\ lastComp # None) => lastComp \in componentsUp

\* C16: when listen_platform has returned to the calling thread, the
\* callback has run on the loop and its listener is registered; a matching
\* load-platform event fired after the return schedules the callback once;
\* a registration that raised is raised in the calling thread instead.
C16_RegisteredOnReturn ==
    /\ lpThread = "returned" =>
          /\ lpJob = "registered"
          /\ lpCb \in 1..Len(listeners)
          /\ listeners[lpCb].kind = "platform"
          /\ listeners[lpCb].component = lpComp
          /\ listeners[lpCb].cb = lpCb
    /\ lpThread = "raised" => lpJob = "failed"
    /\ (lpJob = "failed" /\ lpThread # "blocked") => lpThread = "raised"
    /\ (/\ afterReturn
        /\ Get(lastEvent, "service") = LoadPlatformService(lpComp)
        /\ PlatformWanted(Get(lastEvent, "platform"))) =>
          Cardinality({j \in 1..Len(jobs) :
                          jobs[j] = [cb |-> lpCb,
                                     platform |-> lastEvent.platform,
                                     discovered |-> Get(lastEvent, "discovered")]})
             = 1

\* a load-platform event for the component was fired after the return and
\* scheduled the callback
C16_Witness ==
    /\ lpThread = "returned"
    /\ afterReturn
    /\ lastKind = "load"
    /\ lastComp = lpComp
    /\ \E j \in 1..Len(jobs) : jobs[j].cb = lpCb

\* the registration raised and the calling thread got the exception
C16_WitnessRaised ==
    lpThread = "raised" /\ lpJob = "failed"

\* ------------------------------------------------------------------------
\* Further properties of async_load_platform and the setup lock

\* C15 (as stated): an invocation that found a lock object in hass.data,
\* free or held, acquires it.
C15_AcquiresWheneverPresent ==
    \A i \in Loads :
        pc[i] \in {"setup", "done", "failed"} =>
            (setup_lock[i] => did_lock[i] /\ acquired[i] = 1)

\* C15 (amended): an invocation sets did_lock and waits in acquire() exactly
\* when it finds a lock object that is held; with no lock object or a free
\* one it goes to the await of async_setup_component without touching the
\* lock.
C15_AcquiresOnlyIfHeld ==
    [][\A i \in Loads :
          (pc[i] = "scheduled" /\ pc'[i] # "scheduled") =>
              /\ did_lock'[i] = (lockPresent /\ locked)
              /\ (pc'[i] = "waiting") = (lockPresent /\ locked)
              /\ ~(lockPresent /\ locked) =>
                    /\ pc'[i] = "setup"
                    /\ acquired'[i] = acquired[i]
                    /\ locked' = locked
                    /\ waiters' = waiters]_vars

\* one invocation found the lock free and went on without it while another
\* found it held and waits for it
C15_Witness ==
    \E i, j \in Loads :
        /\ pc[i] = "setup" /\ setup_lock[i] /\ ~did_lock[i] /\ acquired[i] = 0
        /\ pc[j] = "waiting" /\ did_lock[j]

\* C17: once a setup sequence that holds the lock yields from
\* async_load_platform, the invocation waits in acquire() for the lock the
\* sequence holds and the sequence waits for the invocation: the lock stays
\* held, nobody is woken for it, and both stay where they are for ever.
C17_AwaitDeadlocks ==
    /\ [](setupPc = "awaiting" =>
            /\ awaited \in Loads
            /\ pc[awaited] = "waiting"
            /\ did_lock[awaited]
            /\ locked
            /\ woken = {})
    /\ [][setupPc = "awaiting" =>
            /\ setupPc' = "awaiting"
            /\ awaited' = awaited
            /\ pc'[awaited] = pc[awaited]]_vars

\* the setup sequence yields from an invocation, and an invocation
\* triggered elsewhere is queued behind it
C17_Witness ==
    /\ setupPc = "awaiting"
    /\ pc[awaited] = "waiting"
    /\ waiters[1] = awaited
    /\ \E j \in Loads : j # awaited /\ pc[j] = "waiting"

\* C18: a cycle that parsed its payload arms exactly one timer, due at the
\* payload's next-run timestamp and not RetryDelay from now, and it has done
\* so whatever the update of the targets then does: the timer is armed also
\* when that update raises.
C18_NextRunArmedFirst ==
    ev.step = "update" =>
        /\ ev.armedNext = 1
        /\ ev.armedRetry = 0
        /\ ev.due = NextRunOf(selfData).next_run
        /\ ev.due # ev.at + RetryDelay
        /\ ev.warned = 0

\* the update of the targets raised after the timer was armed
C18_Witness ==
    /\ ev.step = "update"
    /\ ev.escaped = "ValueError"
    /\ ev.armedNext = 1
    /\ Len(timers) >= 1
    /\ timers[Len(timers)] = ev.due

\* C19: a target whose comparison ran has the value read from an entry of
\* the current payload that carries its own kind; a target for which the
\* payload has no such entry keeps its previous value and starts no state
\* task.
C19_ValueFromOwnWindow ==
    ev.step = "update" =>
        \A d \in 1..ev.done :
            LET k == SelectIdx(devices[d], selfData.windows, ev.at)
            IN  /\ k # 0 => devState[d] = Extract(devices[d], selfData.windows[k])
                /\ k = 0 =>
                      /\ devState[d] = ev.prev[d]
                      /\ \A j \in 1..Len(ev.emitted) : ev.emitted[j] # d

\* C20 (as stated): async_update invocations of one YrData never overlap.
C20_NoOverlap == InFlightTotal <= 1

\* C20 (amended): at most one invocation is before the point where it arms
\* its timer (fetching or reading the response); an invocation started by
\* that timer can overlap only invocations that wait for their state tasks.
C20_OverlapOnlyWithGather == inflight.fetching + inflight.reading <= 1

\* the timer of a cycle that still waits for its state tasks has started
\* the next cycle
C20_Witness ==
    /\ inflight.gathering = 1
    /\ inflight.fetching = 1
    /\ ev.step = "update"
    /\ ev.due <= now

=============================================================================
